---- MODULE Spec2Model ----
(***************************************************************************)
(* A model of aws_reservations_report.py: one run of main(), which asks    *)
(* the identity service for the account, enumerates the regions, calls the *)
(* three fetchers for every region in turn, prints the report and dumps    *)
(* the records to a JSON file.  The provider (boto3) is the environment:   *)
(* every API call's outcome is drawn from a small set.                     *)
(***************************************************************************)
EXTENDS Integers, Sequences, FiniteSets, TLC

VARIABLES pc, regions, idx, region_reservations, all_reservations,
          regions_with_data, console, file, calls

vars == <<pc, regions, idx, region_reservations, all_reservations,
          regions_with_data, console, file, calls>>

(***************************************************************************)
(* Python values.  Every value carries its type in field t, and the payload *)
(* in a field named after the type.  Numbers are integers; a date field of *)
(* a provider record is a datetime, a text or absent.                      *)
(***************************************************************************)
Str(s) == [t |-> "str", s |-> s]
Num(n) == [t |-> "num", n |-> n]
Bool(b) == [t |-> "bool", b |-> b]
None == [t |-> "none"]
DateTime(Y, M, D, h, mi, sec) ==
    [t |-> "datetime", Y |-> Y, M |-> M, D |-> D, h |-> h, mi |-> mi, sec |-> sec]

Pad2(n) == IF n < 10 THEN "0" \o ToString(n) ELSE ToString(n)

\* the four-digit year of str(datetime)
Pad4(n) ==
    IF n < 10 THEN "000" \o ToString(n)
    ELSE IF n < 100 THEN "00" \o ToString(n)
    ELSE IF n < 1000 THEN "0" \o ToString(n)
    ELSE ToString(n)

\* dt.strftime('%Y-%m-%d %H:%M:%S UTC'); %Y is the year as it is, unpadded
strftime(dt) ==
    ToString(dt.Y) \o "-" \o Pad2(dt.M) \o "-" \o Pad2(dt.D) \o " "
        \o Pad2(dt.h) \o ":" \o Pad2(dt.mi) \o ":" \o Pad2(dt.sec) \o " UTC"

\* str(v), as an f-string and json's default=str render a value; the provider
\* hands out timezone-aware UTC datetimes.
PyStr(v) ==
    CASE v.t = "str" -> v.s
      [] v.t = "num" -> ToString(v.n)
      [] v.t = "bool" -> (IF v.b THEN "True" ELSE "False")
      [] v.t = "none" -> "None"
      [] v.t = "datetime" ->
            Pad4(v.Y) \o "-" \o Pad2(v.M) \o "-" \o Pad2(v.D) \o " "
                \o Pad2(v.h) \o ":" \o Pad2(v.mi) \o ":" \o Pad2(v.sec) \o "+00:00"

\* Python truthiness of a value ("if dt:").
Truthy(v) ==
    CASE v.t = "str" -> v.s # ""
      [] v.t = "num" -> v.n # 0
      [] v.t = "bool" -> v.b
      [] v.t = "none" -> FALSE
      [] v.t = "datetime" -> TRUE

\* A mutant of format_datetime: the value is passed on as it came.
format_datetime_raw(dt) == IF Truthy(dt) THEN dt ELSE Str("N/A")

format_datetime(dt) ==
    IF Truthy(dt)
    THEN IF dt.t = "str" THEN dt ELSE Str(strftime(dt))
    ELSE Str("N/A")

(***************************************************************************)
(* A provider record is a function from the field names it has to values.  *)
(* A dict built by the program is a sequence of <<key, value>> pairs in    *)
(* insertion order.                                                        *)
(***************************************************************************)
\* d.get(k, default) and d.get(k) on a provider record
Get(d, k, default) == IF k \in DOMAIN d THEN d[k] ELSE default

\* d[k] = v on a dict: a key already there keeps its place and takes the value
DictSet(d, k, v) ==
    IF \E j \in 1..Len(d) : d[j][1] = k
    THEN [j \in 1..Len(d) |-> IF d[j][1] = k THEN <<k, v>> ELSE d[j]]
    ELSE Append(d, <<k, v>>)

RECURSIVE DictFrom(_, _)
DictFrom(d, pairs) ==
    IF pairs = <<>> THEN d
    ELSE DictFrom(DictSet(d, Head(pairs)[1], Head(pairs)[2]), Tail(pairs))

\* a dict display {k1: v1, k2: v2, ...}, evaluated left to right
DictLiteral(pairs) == DictFrom(<<>>, pairs)

DictHas(d, k) == \E j \in 1..Len(d) : d[j][1] = k

\* d.get(k) on a dict
DictGet(d, k) ==
    IF DictHas(d, k) THEN d[CHOOSE j \in 1..Len(d) : d[j][1] = k][2] ELSE None

RECURSIVE Flatten(_)
Flatten(ss) == IF ss = <<>> THEN <<>> ELSE Head(ss) \o Flatten(Tail(ss))

(***************************************************************************)
(* The provider's answer to one API call, and what a function of the       *)
(* program hands back: a value and the lines it printed, or an exception.  *)
(***************************************************************************)
Ok(resp) == [kind |-> "ok", resp |-> resp, code |-> ""]
ClientError(code) == [kind |-> "ClientError", resp |-> <<>>, code |-> code]
EndpointConnectionError ==
    [kind |-> "EndpointConnectionError", resp |-> <<>>, code |-> ""]

Returned(val, out) == [raised |-> FALSE, exc |-> "", msg |-> "", val |-> val, out |-> out]
Raised(exc, msg) == [raised |-> TRUE, exc |-> exc, msg |-> msg, val |-> <<>>, out |-> <<>>]

\* str(e) of a botocore ClientError and of an EndpointConnectionError
ClientErrorMsg(code, op) ==
    "An error occurred (" \o code \o ") when calling the " \o op \o " operation"
EndpointMsg == "Could not connect to the endpoint URL"

\* the fields a fetcher reads with ri['...'], in the order it reads them
EC2Required ==
    <<"ReservedInstancesId", "InstanceType", "State", "Duration", "InstanceCount",
      "ProductDescription", "InstanceTenancy", "OfferingClass", "OfferingType">>
RDSRequired ==
    <<"ReservedDBInstanceId", "DBInstanceClass", "ProductDescription", "State",
      "Duration", "DBInstanceCount", "OfferingType", "MultiAZ">>
SPRequired ==
    <<"savingsPlanId", "savingsPlanArn", "state", "savingsPlanType", "paymentOption",
      "commitment", "currency">>

Lacks(rec, required) == \E j \in 1..Len(required) : required[j] \notin DOMAIN rec

\* the key of the KeyError a record raises: the first field read that it lacks
FirstMissing(rec, required) ==
    required[CHOOSE j \in 1..Len(required) :
                /\ required[j] \notin DOMAIN rec
                /\ \A k \in 1..(j - 1) : required[k] \in DOMAIN rec]

\* the first record of a response that lacks a field read unconditionally
FirstBad(resp, required) ==
    resp[CHOOSE j \in 1..Len(resp) :
            /\ Lacks(resp[j], required)
            /\ \A k \in 1..(j - 1) : ~Lacks(resp[k], required)]

KeyErrorOf(resp, required) ==
    Raised("KeyError", "'" \o FirstMissing(FirstBad(resp, required), required) \o "'")

SilentCodes == {"UnauthorizedOperation", "AccessDenied"}

ec2_record(ri, region) ==
    DictLiteral(<<
        <<"Type", Str("EC2 Reserved Instance")>>,
        <<"Region", Str(region)>>,
        <<"ReservedInstancesId", ri["ReservedInstancesId"]>>,
        <<"InstanceType", ri["InstanceType"]>>,
        <<"AvailabilityZone", Get(ri, "AvailabilityZone", Str("N/A"))>>,
        <<"State", ri["State"]>>,
        <<"Start", format_datetime(Get(ri, "Start", None))>>,
        <<"End", format_datetime(Get(ri, "End", None))>>,
        <<"Duration", Str(PyStr(ri["Duration"]) \o " seconds")>>,
        <<"InstanceCount", ri["InstanceCount"]>>,
        <<"ProductDescription", ri["ProductDescription"]>>,
        <<"InstanceTenancy", ri["InstanceTenancy"]>>,
        <<"OfferingClass", ri["OfferingClass"]>>,
        <<"OfferingType", ri["OfferingType"]>>,
        <<"FixedPrice", Get(ri, "FixedPrice", Num(0))>>,
        <<"UsagePrice", Get(ri, "UsagePrice", Num(0))>>,
        <<"CurrencyCode", Get(ri, "CurrencyCode", Str("USD"))>> >>)

get_ec2_reserved_instances(region, outcome) ==
    CASE outcome.kind = "ok" ->
            IF \E j \in 1..Len(outcome.resp) : Lacks(outcome.resp[j], EC2Required)
            THEN KeyErrorOf(outcome.resp, EC2Required)
            ELSE Returned([j \in 1..Len(outcome.resp) |->
                              ec2_record(outcome.resp[j], region)], <<>>)
      [] outcome.kind = "ClientError" ->
            Returned(<<>>,
                IF outcome.code \notin SilentCodes
                THEN <<"Error retrieving EC2 Reserved Instances in " \o region \o ": "
                         \o ClientErrorMsg(outcome.code, "DescribeReservedInstances")>>
                ELSE <<>>)
      [] OTHER -> Raised(outcome.kind, EndpointMsg)

rds_record(ri, region) ==
    DictLiteral(<<
        <<"Type", Str("RDS Reserved Instance")>>,
        <<"Region", Str(region)>>,
        <<"ReservedDBInstanceId", ri["ReservedDBInstanceId"]>>,
        <<"DBInstanceClass", ri["DBInstanceClass"]>>,
        <<"Engine", ri["ProductDescription"]>>,
        <<"State", ri["State"]>>,
        <<"Start", format_datetime(Get(ri, "StartTime", None))>>,
        <<"Duration", Str(PyStr(ri["Duration"]) \o " seconds")>>,
        <<"DBInstanceCount", ri["DBInstanceCount"]>>,
        <<"OfferingType", ri["OfferingType"]>>,
        <<"MultiAZ", ri["MultiAZ"]>>,
        <<"FixedPrice", Get(ri, "FixedPrice", Num(0))>>,
        <<"UsagePrice", Get(ri, "UsagePrice", Num(0))>>,
        <<"CurrencyCode", Get(ri, "CurrencyCode", Str("USD"))>> >>)

\* A mutant of get_rds_reserved_instances: every provider error is printed.
get_rds_reserved_instances_loud(region, outcome) ==
    CASE outcome.kind = "ok" ->
            IF \E j \in 1..Len(outcome.resp) : Lacks(outcome.resp[j], RDSRequired)
            THEN KeyErrorOf(outcome.resp, RDSRequired)
            ELSE Returned([j \in 1..Len(outcome.resp) |->
                              rds_record(outcome.resp[j], region)], <<>>)
      [] outcome.kind = "ClientError" ->
            Returned(<<>>,
                <<"Error retrieving RDS Reserved Instances in " \o region \o ": "
                    \o ClientErrorMsg(outcome.code, "DescribeReservedDBInstances")>>)
      [] OTHER -> Raised(outcome.kind, EndpointMsg)

get_rds_reserved_instances(region, outcome) ==
    CASE outcome.kind = "ok" ->
            IF \E j \in 1..Len(outcome.resp) : Lacks(outcome.resp[j], RDSRequired)
            THEN KeyErrorOf(outcome.resp, RDSRequired)
            ELSE Returned([j \in 1..Len(outcome.resp) |->
                              rds_record(outcome.resp[j], region)], <<>>)
      [] outcome.kind = "ClientError" ->
            Returned(<<>>,
                IF outcome.code \notin SilentCodes
                THEN <<"Error retrieving RDS Reserved Instances in " \o region \o ": "
                         \o ClientErrorMsg(outcome.code, "DescribeReservedDBInstances")>>
                ELSE <<>>)
      [] OTHER -> Raised(outcome.kind, EndpointMsg)

\* the display names 'Region' twice: the second value replaces the first
sp_record(sp, region) ==
    DictLiteral(<<
        <<"Type", Str("Savings Plan")>>,
        <<"Region", Str(region)>>,
        <<"SavingsPlanId", sp["savingsPlanId"]>>,
        <<"SavingsPlanArn", sp["savingsPlanArn"]>>,
        <<"Description", Get(sp, "description", Str("N/A"))>>,
        <<"State", sp["state"]>>,
        <<"PlanType", sp["savingsPlanType"]>>,
        <<"PaymentOption", sp["paymentOption"]>>,
        <<"Start", format_datetime(Get(sp, "start", None))>>,
        <<"End", format_datetime(Get(sp, "end", None))>>,
        <<"Commitment", Str(PyStr(sp["commitment"]) \o " " \o PyStr(sp["currency"])
                              \o "/hour")>>,
        <<"Currency", sp["currency"]>>,
        <<"UpfrontPayment", Get(sp, "upfrontPaymentAmount", Str("N/A"))>>,
        <<"RecurringPayment", Get(sp, "recurringPaymentAmount", Str("N/A"))>>,
        <<"TermDurationInSeconds", Get(sp, "termDurationInSeconds", Str("N/A"))>>,
        <<"EC2InstanceFamily", Get(sp, "ec2InstanceFamily", Str("N/A"))>>,
        <<"Region", Get(sp, "region", Str("N/A"))>> >>)

get_savings_plans(region, outcome) ==
    CASE outcome.kind = "ok" ->
            IF \E j \in 1..Len(outcome.resp) : Lacks(outcome.resp[j], SPRequired)
            THEN KeyErrorOf(outcome.resp, SPRequired)
            ELSE Returned([j \in 1..Len(outcome.resp) |->
                              sp_record(outcome.resp[j], region)], <<>>)
      [] outcome.kind = "ClientError" ->
            Returned(<<>>,
                IF outcome.code \notin SilentCodes
                THEN <<"Error retrieving Savings Plans in " \o region \o ": "
                         \o ClientErrorMsg(outcome.code, "DescribeSavingsPlans")>>
                ELSE <<>>)
      [] OTHER -> Raised(outcome.kind, EndpointMsg)

FallbackRegions ==
    <<"us-east-1", "us-east-2", "us-west-1", "us-west-2",
      "eu-west-1", "eu-west-2", "eu-west-3", "eu-central-1",
      "ap-southeast-1", "ap-southeast-2", "ap-northeast-1", "ap-northeast-2",
      "ap-south-1", "ca-central-1", "sa-east-1">>

\* outcome.resp is the list of region names of response['Regions']
get_all_regions(outcome) ==
    CASE outcome.kind = "ok" -> Returned(outcome.resp, <<>>)
      [] outcome.kind = "ClientError" ->
            Returned(FallbackRegions,
                <<"Error getting regions: "
                    \o ClientErrorMsg(outcome.code, "DescribeRegions")>>)
      [] OTHER -> Raised(outcome.kind, EndpointMsg)

(***************************************************************************)
(* Reporting.                                                              *)
(***************************************************************************)
Rule80 == "================================================================================"
Rule50 == "=================================================="
Rule40 == "----------------------------------------"

CountType(all, type) ==
    Cardinality({j \in 1..Len(all) : DictGet(all[j], "Type") = Str(type)})

print_summary(all) ==
    <<"\n" \o Rule80,
      "SUMMARY",
      Rule80,
      "EC2 Reserved Instances: " \o ToString(CountType(all, "EC2 Reserved Instance")),
      "RDS Reserved Instances: " \o ToString(CountType(all, "RDS Reserved Instance")),
      "Savings Plans: " \o ToString(CountType(all, "Savings Plan")),
      "Total Reservations: " \o ToString(Len(all))>>

\* the lines printed for one reservation: its type, a rule, every other field
ReservationLines(reservation) ==
    <<"\n" \o PyStr(DictGet(reservation, "Type")) \o ":", Rule40>>
        \o [j \in 1..(Len(reservation) - 1) |->
               "  " \o SelectSeq(reservation, LAMBDA kv : kv[1] # "Type")[j][1] \o ": "
                    \o PyStr(SelectSeq(reservation, LAMBDA kv : kv[1] # "Type")[j][2])]

\* A mutant of print_detailed_report: the empty case is not told apart.
print_detailed_report_always(all) ==
    <<"\n" \o Rule80, "DETAILED REPORT", Rule80>>
        \o Flatten([j \in 1..Len(all) |-> ReservationLines(all[j])])

print_detailed_report(all) ==
    IF all = <<>>
    THEN <<"No Reserved Instances or Savings Plans found in this account.">>
    ELSE <<"\n" \o Rule80, "DETAILED REPORT", Rule80>>
            \o Flatten([j \in 1..Len(all) |-> ReservationLines(all[j])])

(***************************************************************************)
(* The JSON document json.dump writes, as the tree of its tokens, and what *)
(* json.load makes of it.                                                  *)
(***************************************************************************)
JString(s) == [j |-> "string", s |-> s]
JNumber(n) == [j |-> "number", n |-> n]
JBool(b) == [j |-> IF b THEN "true" ELSE "false"]
JNull == [j |-> "null"]

\* json's encoder; a value it does not know goes through default=str
json_value(v) ==
    CASE v.t = "str" -> JString(v.s)
      [] v.t = "num" -> JNumber(v.n)
      [] v.t = "bool" -> JBool(v.b)
      [] v.t = "none" -> JNull
      [] OTHER -> JString(PyStr(v))

json_dump(all) ==
    [j \in 1..Len(all) |->
        [k \in 1..Len(all[j]) |-> <<all[j][k][1], json_value(all[j][k][2])>>]]

py_value(jv) ==
    CASE jv.j = "string" -> Str(jv.s)
      [] jv.j = "number" -> Num(jv.n)
      [] jv.j = "true" -> Bool(TRUE)
      [] jv.j = "false" -> Bool(FALSE)
      [] jv.j = "null" -> None

json_load(doc) ==
    [j \in 1..Len(doc) |->
        DictLiteral([k \in 1..Len(doc[j]) |-> <<doc[j][k][1], py_value(doc[j][k][2])>>])]

Filename == "aws_reservations_report.json"

\* The output file: whether it exists, whether this run has opened it for
\* writing (which creates or empties it), and whether it holds a complete
\* document; doc is that document.
NoFile == [exists |-> FALSE, written |-> FALSE, complete |-> FALSE, doc |-> <<>>]
OlderFile(doc) == [exists |-> TRUE, written |-> FALSE, complete |-> TRUE, doc |-> doc]
SavedFile(doc) == [exists |-> TRUE, written |-> TRUE, complete |-> TRUE, doc |-> doc]
\* opened and emptied, the text of the document not (all) there
BrokenFile == [exists |-> TRUE, written |-> TRUE, complete |-> FALSE, doc |-> <<>>]

\* io tells where the block under try fails: nowhere, in open(filename, 'w'),
\* or after it, in json.dump or in closing the file
save_to_json(all, io, old) ==
    CASE io.at = "none" ->
            [file |-> SavedFile(json_dump(all)),
             out |-> <<"\nReport saved to: " \o Filename>>]
      [] io.at = "open" ->
            [file |-> old,
             out |-> <<"Error saving to JSON: " \o io.msg>>]
      [] io.at = "write" ->
            [file |-> BrokenFile,
             out |-> <<"Error saving to JSON: " \o io.msg>>]

(***************************************************************************)
(* The environment: what the provider may answer.                          *)
(***************************************************************************)
\* how many listing calls of a run the provider may answer with anything but
\* an empty list
MaxEvents == 3

\* the regions where the provider answers with anything but an empty list
ActiveRegions == {"eu-north-1", "sa-east-1"}

\* what describe_regions may list
RegionLists ==
    { <<>>,
      <<"sa-east-1">>,
      <<"sa-east-1", "eu-north-1">> }

ErrorCodes == {"UnauthorizedOperation", "AccessDenied", "InternalError"}

ec2Full ==
    [ReservedInstancesId |-> Str("ri-1"), InstanceType |-> Str("m5.large"),
     AvailabilityZone |-> Str("zone-a"), State |-> Str("active"),
     Start |-> DateTime(2024, 1, 5, 8, 30, 0), End |-> Str("2025-01-05T08:30:00Z"),
     Duration |-> Num(31536000), InstanceCount |-> Num(2),
     ProductDescription |-> Str("Linux/UNIX"), InstanceTenancy |-> Str("default"),
     OfferingClass |-> Str("standard"), OfferingType |-> Str("All Upfront"),
     FixedPrice |-> Num(500), UsagePrice |-> Num(3), CurrencyCode |-> Str("EUR")]

ec2Min ==
    [ReservedInstancesId |-> Str("ri-2"), InstanceType |-> Str("t3.micro"),
     State |-> Str("retired"), Duration |-> Num(94608000), InstanceCount |-> Num(1),
     ProductDescription |-> Str("Windows"), InstanceTenancy |-> Str("dedicated"),
     OfferingClass |-> Str("convertible"), OfferingType |-> Str("No Upfront")]

\* lacks OfferingClass
ec2Bad ==
    [ReservedInstancesId |-> Str("ri-3"), InstanceType |-> Str("c5.xlarge"),
     State |-> Str("active"), Duration |-> Num(31536000), InstanceCount |-> Num(1),
     ProductDescription |-> Str("Linux/UNIX"), InstanceTenancy |-> Str("default"),
     OfferingType |-> Str("Heavy Utilization")]

rdsFull ==
    [ReservedDBInstanceId |-> Str("rdb-1"), DBInstanceClass |-> Str("db.m5.large"),
     ProductDescription |-> Str("postgresql"), State |-> Str("active"),
     StartTime |-> DateTime(2023, 11, 30, 23, 59, 59), Duration |-> Num(31536000),
     DBInstanceCount |-> Num(1), OfferingType |-> Str("Partial Upfront"),
     MultiAZ |-> Bool(TRUE), FixedPrice |-> Num(250), UsagePrice |-> Num(0),
     CurrencyCode |-> Str("USD")]

\* no prices, and an empty start time
rdsMin ==
    [ReservedDBInstanceId |-> Str("rdb-2"), DBInstanceClass |-> Str("db.t3.small"),
     ProductDescription |-> Str("mysql"), State |-> Str("retired"),
     StartTime |-> Str(""), Duration |-> Num(94608000),
     DBInstanceCount |-> Num(3), OfferingType |-> Str("No Upfront"),
     MultiAZ |-> Bool(FALSE)]

\* lacks MultiAZ
rdsBad ==
    [ReservedDBInstanceId |-> Str("rdb-3"), DBInstanceClass |-> Str("db.r5.large"),
     ProductDescription |-> Str("oracle-se2"), State |-> Str("active"),
     Duration |-> Num(31536000), DBInstanceCount |-> Num(1),
     OfferingType |-> Str("All Upfront")]

spFull ==
    [savingsPlanId |-> Str("sp-1"), savingsPlanArn |-> Str("arn:aws:savingsplans::sp-1"),
     description |-> Str("1 year EC2 Instance"), state |-> Str("active"),
     savingsPlanType |-> Str("EC2Instance"), paymentOption |-> Str("Partial Upfront"),
     start |-> Str("2024-03-01T00:00:00.000Z"), end |-> DateTime(2025, 2, 28, 23, 59, 59),
     commitment |-> Str("1.5"), currency |-> Str("USD"),
     upfrontPaymentAmount |-> Str("6570.0"), recurringPaymentAmount |-> Str("0.75"),
     termDurationInSeconds |-> Num(31536000), ec2InstanceFamily |-> Str("m5"),
     region |-> Str("us-west-2")]

\* a Compute plan: no region, no instance family, no payment amounts
spMin ==
    [savingsPlanId |-> Str("sp-2"), savingsPlanArn |-> Str("arn:aws:savingsplans::sp-2"),
     state |-> Str("active"), savingsPlanType |-> Str("Compute"),
     paymentOption |-> Str("No Upfront"), commitment |-> Str("2.0"),
     currency |-> Str("USD")]

\* lacks commitment
spBad ==
    [savingsPlanId |-> Str("sp-3"), savingsPlanArn |-> Str("arn:aws:savingsplans::sp-3"),
     state |-> Str("queued"), savingsPlanType |-> Str("SageMaker"),
     paymentOption |-> Str("All Upfront"), currency |-> Str("USD")]

EC2Responses == { <<>>, <<ec2Full>>, <<ec2Min, ec2Full>>, <<ec2Full, ec2Bad>> }
RDSResponses == { <<>>, <<rdsMin>>, <<rdsFull, rdsMin>>, <<rdsBad>> }
SPResponses == { <<>>, <<spMin>>, <<spFull, spMin>>, <<spBad, spFull>> }

Outcomes(responses) ==
    {Ok(r) : r \in responses} \cup {ClientError(c) : c \in ErrorCodes}
        \cup {EndpointConnectionError}

IsFetch(c) == c.svc \in {"ec2", "rds", "savingsplans"}

Events == Cardinality({j \in 1..Len(calls) : IsFetch(calls[j]) /\ calls[j].outcome # Ok(<<>>)})

\* the answers the provider may give to a listing call in a region
Answers(responses, region) ==
    IF region \in ActiveRegions /\ Events < MaxEvents
    THEN Outcomes(responses)
    ELSE {Ok(<<>>)}

Call(svc, region, outcome, ret) ==
    [svc |-> svc, region |-> region, outcome |-> outcome, ret |-> ret]

AccountId == "123456789012"
Now == "2026-10-29 02:08:00"

\* the report an earlier run may have left in the directory
OlderReport == json_dump(<<ec2_record(ec2Full, "us-east-1")>>)

(***************************************************************************)
(* main(), one action per call it makes.                                   *)
(***************************************************************************)
Init ==
    /\ pc = "identity"
    /\ regions = <<>>
    /\ idx = 0
    /\ region_reservations = <<>>
    /\ all_reservations = <<>>
    /\ regions_with_data = {}
    /\ console = <<>>
    /\ file \in {NoFile, OlderFile(OlderReport)}
    /\ calls = <<>>

\* list.extend(items)
ExtendFront(list, items) == items \o list

Extend(list, items) == list \o items

\* the top-level handler "except Exception", after main has printed pre
Unexpected(pre, ret) ==
    /\ pc' = "aborted"
    /\ console' = console \o pre \o <<"An unexpected error occurred: " \o ret.msg>>

NoCredentialsError == [kind |-> "NoCredentialsError", resp |-> <<>>, code |-> ""]
NoCredentialsMsg == "Unable to locate credentials"

IdentityOutcomes == {Ok(<<AccountId>>), NoCredentialsError, ClientError("ExpiredToken")}

Remediation ==
    <<"Error: AWS credentials not found. Please configure your AWS credentials.",
      "You can use: aws configure, environment variables, or IAM roles.">>

Header(account_id) ==
    <<"AWS Reserved Instances and Savings Plans Report",
      Rule50,
      "Account ID: " \o account_id,
      "Generated: " \o Now>>

\* A mutant of main_identity: the missing credentials are reported and the run goes on.
main_identity_goes_on ==
    /\ pc = "identity"
    /\ \E o \in IdentityOutcomes :
        /\ calls' = Append(calls, Call("sts", "",  o,
                        IF o.kind = "ok" THEN Returned(o.resp, <<>>)
                        ELSE Raised(o.kind, IF o.kind = "ClientError"
                                            THEN ClientErrorMsg(o.code, "GetCallerIdentity")
                                            ELSE NoCredentialsMsg)))
        /\ CASE o.kind = "ok" ->
                    /\ console' = console \o Header(o.resp[1])
                    /\ pc' = "regions"
              [] o.kind = "NoCredentialsError" ->
                    /\ console' = console \o Remediation
                    /\ pc' = "regions"
              [] OTHER ->
                    Unexpected(<<>>, Raised(o.kind, ClientErrorMsg(o.code, "GetCallerIdentity")))
    /\ UNCHANGED <<regions, idx, region_reservations, all_reservations,
                   regions_with_data, file>>

\* session.client('sts').get_caller_identity() and the header
main_identity ==
    /\ pc = "identity"
    /\ \E o \in IdentityOutcomes :
        /\ calls' = Append(calls, Call("sts", "",  o,
                        IF o.kind = "ok" THEN Returned(o.resp, <<>>)
                        ELSE Raised(o.kind, IF o.kind = "ClientError"
                                            THEN ClientErrorMsg(o.code, "GetCallerIdentity")
                                            ELSE NoCredentialsMsg)))
        /\ CASE o.kind = "ok" ->
                    /\ console' = console \o Header(o.resp[1])
                    /\ pc' = "regions"
              [] o.kind = "NoCredentialsError" ->
                    /\ console' = console \o Remediation
                    /\ pc' = "done"
              [] OTHER ->
                    Unexpected(<<>>, Raised(o.kind, ClientErrorMsg(o.code, "GetCallerIdentity")))
    /\ UNCHANGED <<regions, idx, region_reservations, all_reservations,
                   regions_with_data, file>>

RegionOutcomes ==
    {Ok(l) : l \in RegionLists}
        \cup {ClientError("AuthFailure"), EndpointConnectionError}

\* regions = get_all_regions(session), and the lines around it
main_regions ==
    /\ pc = "regions"
    /\ \E o \in RegionOutcomes :
        LET ret == get_all_regions(o) IN
        /\ calls' = Append(calls, Call("ec2:DescribeRegions", "us-east-1", o, ret))
        /\ IF ret.raised
           THEN /\ Unexpected(<<"\nGetting list of AWS regions...">>, ret)
                /\ UNCHANGED <<regions, idx>>
           ELSE /\ regions' = ret.val
                /\ idx' = 1
                /\ console' = console \o <<"\nGetting list of AWS regions...">> \o ret.out
                        \o <<"Checking " \o ToString(Len(ret.val))
                                \o " regions for reservations...">>
                /\ pc' = IF ret.val = <<>> THEN "report" ELSE "ec2"
    /\ UNCHANGED <<region_reservations, all_reservations, regions_with_data, file>>

\* the head of the loop body and the compute fetcher
main_ec2 ==
    /\ pc = "ec2"
    /\ \E o \in Answers(EC2Responses, regions[idx]) :
        LET region == regions[idx]
            ret == get_ec2_reserved_instances(region, o)
        IN
        /\ calls' = Append(calls, Call("ec2", region, o, ret))
        /\ IF ret.raised
           THEN /\ Unexpected(<<"\nChecking region: " \o region>>, ret)
                /\ region_reservations' = <<>>
           ELSE /\ region_reservations' = Extend(<<>>, ret.val)
                /\ console' = console \o <<"\nChecking region: " \o region>> \o ret.out
                /\ pc' = "rds"
    /\ UNCHANGED <<regions, idx, all_reservations, regions_with_data, file>>

\* the database fetcher
main_rds ==
    /\ pc = "rds"
    /\ \E o \in Answers(RDSResponses, regions[idx]) :
        LET region == regions[idx]
            ret == get_rds_reserved_instances(region, o)
        IN
        /\ calls' = Append(calls, Call("rds", region, o, ret))
        /\ IF ret.raised
           THEN /\ Unexpected(<<>>, ret)
                /\ UNCHANGED region_reservations
           ELSE /\ region_reservations' = Extend(region_reservations, ret.val)
                /\ console' = console \o ret.out
                /\ pc' = "sp"
    /\ UNCHANGED <<regions, idx, all_reservations, regions_with_data, file>>

\* the subscription-plan fetcher and the rest of the loop body
main_sp ==
    /\ pc = "sp"
    /\ \E o \in Answers(SPResponses, regions[idx]) :
        LET region == regions[idx]
            ret == get_savings_plans(region, o)
            found == Extend(region_reservations, ret.val)
        IN
        /\ calls' = Append(calls, Call("savingsplans", region, o, ret))
        /\ IF ret.raised
           THEN /\ Unexpected(<<>>, ret)
                /\ UNCHANGED <<region_reservations, all_reservations,
                               regions_with_data, idx>>
           ELSE /\ region_reservations' = found
                /\ IF found # <<>>
                   THEN /\ regions_with_data' = regions_with_data \cup {region}
                        /\ console' = console \o ret.out
                                \o <<"  Found " \o ToString(Len(found))
                                        \o " reservations in " \o region>>
                        /\ all_reservations' = Extend(all_reservations, found)
                   ELSE /\ console' = console \o ret.out
                                \o <<"  No reservations found in " \o region>>
                        /\ UNCHANGED <<all_reservations, regions_with_data>>
                /\ idx' = idx + 1
                /\ pc' = IF idx = Len(regions) THEN "report" ELSE "ec2"
    /\ UNCHANGED <<regions, file>>

\* every region name the model uses, in Python's string order
SortedRegionNames ==
    <<"ap-northeast-1", "ap-northeast-2", "ap-south-1", "ap-southeast-1",
      "ap-southeast-2", "ca-central-1", "eu-central-1", "eu-north-1", "eu-west-1",
      "eu-west-2", "eu-west-3", "sa-east-1", "us-east-1", "us-east-2", "us-west-1", "us-west-2">>

\* sorted(a set of region names)
sorted(S) == SelectSeq(SortedRegionNames, LAMBDA r : r \in S)

\* len([r for r in all_reservations if r.get('Region') == region])
region_count(all, region) ==
    Cardinality({j \in 1..Len(all) : DictGet(all[j], "Region") = Str(region)})

\* the region index: the lines printed under REGIONS WITH RESERVATIONS
region_index(with_data, all) ==
    IF with_data # {}
    THEN [j \in 1..Len(sorted(with_data)) |->
            "  " \o sorted(with_data)[j] \o ": "
                \o ToString(region_count(all, sorted(with_data)[j])) \o " reservations"]
    ELSE <<"No regions found with reservations">>

\* the region index, the summary and the detailed listing
main_report ==
    /\ pc = "report"
    /\ console' = console \o <<"\n" \o Rule80, "REGIONS WITH RESERVATIONS", Rule80>>
            \o region_index(regions_with_data, all_reservations)
            \o print_summary(all_reservations)
            \o print_detailed_report(all_reservations)
    /\ pc' = "save"
    /\ UNCHANGED <<regions, idx, region_reservations, all_reservations,
                   regions_with_data, file, calls>>

IOOutcomes ==
    { [at |-> "none", msg |-> ""],
      [at |-> "open", msg |-> "[Errno 13] Permission denied: '" \o Filename \o "'"],
      [at |-> "write", msg |-> "[Errno 27] File too large"] }

\* save_to_json(all_reservations)
main_save ==
    /\ pc = "save"
    /\ \E io \in IOOutcomes :
        /\ file' = save_to_json(all_reservations, io, file).file
        /\ console' = console \o save_to_json(all_reservations, io, file).out
    /\ pc' = "done"
    /\ UNCHANGED <<regions, idx, region_reservations, all_reservations,
                   regions_with_data, calls>>

Next ==
    \/ main_identity
    \/ main_regions
    \/ main_ec2
    \/ main_rds
    \/ main_sp
    \/ main_report
    \/ main_save

Spec == Init /\ [][Next]_vars

(***************************************************************************)
(* What the claims speak of, read off the record of the calls.             *)
(***************************************************************************)
Range(seq) == {seq[j] : j \in 1..Len(seq)}

IsPrefix(a, b) == Len(a) <= Len(b) /\ SubSeq(b, 1, Len(a)) = a

FetchCalls == SelectSeq(calls, IsFetch)

RECURSIVE SumLen(_)
SumLen(cs) == IF cs = <<>> THEN 0 ELSE Len(Head(cs).ret.val) + SumLen(Tail(cs))

\* the number of records the three fetchers returned while a region was scanned
Collected(region) == SumLen(SelectSeq(FetchCalls, LAMBDA c : c.region = region))

AuthDenied == {"UnauthorizedOperation", "AccessDenied"}

CredentialsOk == calls # <<>> /\ calls[1].outcome.kind = "ok"
CredentialsAbsent == calls # <<>> /\ calls[1].outcome.kind = "NoCredentialsError"

RegionsCall == calls[2]
RegionsAsked == Len(calls) >= 2

\* the listing call failed, or a record of its answer lacks a field that is read
FetchFailed(c) ==
    \/ c.outcome.kind # "ok"
    \/ \E j \in 1..Len(c.outcome.resp) :
          Lacks(c.outcome.resp[j],
                CASE c.svc = "ec2" -> EC2Required
                  [] c.svc = "rds" -> RDSRequired
                  [] c.svc = "savingsplans" -> SPRequired)

\* the listing calls a full scan of a list of regions makes, in order
ExpectedCalls(rs) ==
    [j \in 1..(3 * Len(rs)) |->
        << CASE j % 3 = 1 -> "ec2" [] j % 3 = 2 -> "rds" [] OTHER -> "savingsplans",
           rs[(j + 2) \div 3] >>]

IssuedCalls == [j \in 1..Len(FetchCalls) |-> <<FetchCalls[j].svc, FetchCalls[j].region>>]

\* C1: no failure of a listing call or of the normalization leaves a fetcher:
\* the fetcher returns an empty list and main goes on.
C1_NoFailureLeavesFetcher ==
    \A j \in 1..Len(calls) :
        (IsFetch(calls[j]) /\ FetchFailed(calls[j]))
            => /\ ~calls[j].ret.raised
               /\ calls[j].ret.val = <<>>
               /\ pc # "aborted"

\* C2: whenever describe_regions fails, get_all_regions returns the fallback list
\* of at least 15 regions, every one of them is scanned, and the run reports.
C2_RegionFailureFallsBack ==
    (RegionsAsked /\ RegionsCall.outcome.kind # "ok")
        => /\ ~RegionsCall.ret.raised
           /\ regions = FallbackRegions
           /\ Len(regions) >= 15
           /\ pc # "aborted"
           /\ pc \in {"report", "save", "done"} => IssuedCalls = ExpectedCalls(regions)

\* C3: without credentials the run prints the remediation message, calls neither
\* the region enumerator nor a fetcher, and never writes the output file.
C3_NoCredentialsNoReport ==
    CredentialsAbsent
        => /\ console = Remediation
           /\ Len(calls) = 1
           /\ ~file.written
           /\ pc = "done"

C3_Witness == CredentialsAbsent /\ pc = "done" /\ console # <<>>

\* the scan of a region has just ended, or the run has gone past the last one
JustScanned == pc \in {"ec2", "report", "save", "done"} /\ Len(FetchCalls) >= 3

LastEC2 == FetchCalls[Len(FetchCalls) - 2]
LastRDS == FetchCalls[Len(FetchCalls) - 1]
LastSP == FetchCalls[Len(FetchCalls)]

RDSDeniedOthersFine ==
    /\ JustScanned
    /\ LastRDS.outcome.kind = "ClientError" /\ LastRDS.outcome.code \in AuthDenied
    /\ LastEC2.outcome.kind = "ok" /\ ~LastEC2.ret.raised
    /\ LastSP.outcome.kind = "ok" /\ ~LastSP.ret.raised

\* C4: when the database fetcher is denied in a region and the other two succeed,
\* the region's records are the compute records followed by the subscription-plan
\* records, and no error line is printed for the database category there.
C4_DeniedDatabaseIsSilent ==
    RDSDeniedOthersFine
        => /\ region_reservations
                = [j \in 1..Len(LastEC2.outcome.resp) |->
                        ec2_record(LastEC2.outcome.resp[j], LastEC2.region)]
                  \o [j \in 1..Len(LastSP.outcome.resp) |->
                        sp_record(LastSP.outcome.resp[j], LastSP.region)]
           /\ \A c \in ErrorCodes :
                ("Error retrieving RDS Reserved Instances in " \o LastRDS.region \o ": "
                    \o ClientErrorMsg(c, "DescribeReservedDBInstances")) \notin Range(console)

C4_Witness ==
    /\ RDSDeniedOthersFine
    /\ LastEC2.ret.val # <<>>
    /\ LastSP.ret.val # <<>>

\* C5: the region index lists exactly the regions whose scan produced a record,
\* each with the number of records collected while it was scanned, which is the
\* number of records of the result whose Region is that region.
C5_IndexCountsCollected ==
    pc \in {"save", "done"} /\ CredentialsOk
        => /\ regions_with_data = {r \in Range(regions) : Collected(r) >= 1}
           /\ \A r \in regions_with_data :
                /\ ("  " \o r \o ": " \o ToString(Collected(r)) \o " reservations")
                        \in Range(console)
                /\ region_count(all_reservations, r) = Collected(r)

\* the regions whose scan has ended: every group of three returned calls
ScansEnded ==
    IF FetchCalls # <<>> /\ FetchCalls[Len(FetchCalls)].ret.raised
    THEN (Len(FetchCalls) - 1) \div 3
    ELSE Len(FetchCalls) \div 3

\* what the fetchers returned for the k-th region: compute, database, plans
ScanOf(k) ==
    FetchCalls[3 * k - 2].ret.val \o FetchCalls[3 * k - 1].ret.val
        \o FetchCalls[3 * k].ret.val

C6_Concatenation ==
    /\ all_reservations = Flatten([k \in 1..ScansEnded |-> ScanOf(k)])
    /\ \A k \in 1..ScansEnded :
          /\ FetchCalls[3 * k - 2].svc = "ec2" /\ FetchCalls[3 * k - 2].region = regions[k]
          /\ FetchCalls[3 * k - 1].svc = "rds" /\ FetchCalls[3 * k - 1].region = regions[k]
          /\ FetchCalls[3 * k].svc = "savingsplans" /\ FetchCalls[3 * k].region = regions[k]
          /\ \A r \in Range(FetchCalls[3 * k - 2].ret.val) :
                DictGet(r, "Type") = Str("EC2 Reserved Instance")
          /\ \A r \in Range(FetchCalls[3 * k - 1].ret.val) :
                DictGet(r, "Type") = Str("RDS Reserved Instance")
          /\ \A r \in Range(FetchCalls[3 * k].ret.val) :
                DictGet(r, "Type") = Str("Savings Plan")

C6_AppendOnly == IsPrefix(all_reservations, all_reservations')

\* C6: the result is the concatenation, in scan order, of each region's records,
\* compute before database before subscription-plan within a region, and a later
\* scan never removes, reorders or changes a record already there.
C6_ResultIsOrderedConcatenation == [](C6_Concatenation) /\ [][C6_AppendOnly]_vars

C6_Witness ==
    /\ pc = "done"
    /\ ScansEnded >= 2
    /\ ScanOf(1) # <<>>
    /\ FetchCalls[4].ret.val # <<>>
    /\ FetchCalls[6].ret.val # <<>>

\* the monetary fields of a record, with the provider field each one comes from
MonetaryFields(svc) ==
    IF svc = "savingsplans"
    THEN { <<"UpfrontPayment", "upfrontPaymentAmount">>,
           <<"RecurringPayment", "recurringPaymentAmount">> }
    ELSE { <<"FixedPrice", "FixedPrice">>, <<"UsagePrice", "UsagePrice">> }

\* C7: every monetary field the provider left out is there in the normalized
\* record with the value 0.
C7_AbsentMoneyIsZero ==
    \A j \in 1..Len(FetchCalls) :
        \A k \in 1..Len(FetchCalls[j].ret.val) :
            \A f \in MonetaryFields(FetchCalls[j].svc) :
                f[2] \notin DOMAIN FetchCalls[j].outcome.resp[k]
                    => /\ DictHas(FetchCalls[j].ret.val[k], f[1])
                       /\ DictGet(FetchCalls[j].ret.val[k], f[1]) = Num(0)

\* the scan ended with every fetcher returning an empty list in every region
ScannedAllEmpty ==
    /\ CredentialsOk
    /\ pc = "done"
    /\ IssuedCalls = ExpectedCalls(regions)
    /\ \A j \in 1..Len(FetchCalls) :
          ~FetchCalls[j].ret.raised /\ FetchCalls[j].ret.val = <<>>

NothingFoundLine == "No Reserved Instances or Savings Plans found in this account."

\* C8 as stated: when every fetcher returns an empty list for every region, the
\* run prints the nothing-found line, prints no detailed listing, and writes an
\* output file whose content is the empty sequence.
C8_EmptyRunWritesEmptyFile ==
    ScannedAllEmpty
        => /\ NothingFoundLine \in Range(console)
           /\ "DETAILED REPORT" \notin Range(console)
           /\ file.written
           /\ file.complete
           /\ file.doc = <<>>

\* C8 as amended: the same, but the file holds the empty sequence only when it
\* could be opened and written; otherwise the failure is printed, and the file is
\* left as it was (open failed) or emptied and incomplete (the write failed).
C8_EmptyRunWritesEmptyFileIfWritable ==
    ScannedAllEmpty
        => /\ NothingFoundLine \in Range(console)
           /\ "DETAILED REPORT" \notin Range(console)
           /\ \/ /\ file = SavedFile(<<>>)
                 /\ console[Len(console)] = "\nReport saved to: " \o Filename
              \/ /\ ~file.written
                 /\ \E io \in IOOutcomes :
                       /\ io.at = "open"
                       /\ console[Len(console)] = "Error saving to JSON: " \o io.msg
              \/ /\ file = BrokenFile
                 /\ \E io \in IOOutcomes :
                       /\ io.at = "write"
                       /\ console[Len(console)] = "Error saving to JSON: " \o io.msg

C8_Witness == ScannedAllEmpty /\ regions # <<>> /\ file = SavedFile(<<>>)

TimestampFields == {"Start", "End"}

\* C9: once save_to_json has written the result, parsing the file back gives
\* the in-memory sequence, record by record and field by field in order, and
\* every timestamp field is text.
C9_RoundTrip ==
    (file.written /\ file.complete)
        => /\ json_load(file.doc) = all_reservations
           /\ \A r \in Range(all_reservations) :
                \A k \in 1..Len(r) : r[k][1] \in TimestampFields => r[k][2].t = "str"

\* a file holding records whose timestamps came as datetime objects and as text
C9_Witness ==
    /\ file.written
    /\ file.complete
    /\ \E j \in 1..Len(FetchCalls) :
          /\ ~FetchCalls[j].ret.raised
          /\ \E k \in 1..Len(FetchCalls[j].outcome.resp) :
                /\ "Start" \in DOMAIN FetchCalls[j].outcome.resp[k]
                /\ FetchCalls[j].outcome.resp[k]["Start"].t = "datetime"
    /\ Len(all_reservations) >= 2

\* C10: in a run with credentials every region of the list gets exactly one
\* listing call of each fetcher, in the order compute, database, subscription
\* plan and region by region, and the report and the dump come after the last.
C10_OneCallEachInOrder ==
    /\ (CredentialsOk /\ RegionsAsked /\ ~RegionsCall.ret.raised)
          => /\ IsPrefix(IssuedCalls, ExpectedCalls(regions))
             /\ pc \in {"report", "save", "done", "aborted"}
                   => IssuedCalls = ExpectedCalls(regions)
    /\ (file.written \/ "SUMMARY" \in Range(console))
          => IssuedCalls = ExpectedCalls(regions)

====
